---- MODULE Spec2Model ----
(***************************************************************************)
(* Model of die_parser (src/src/lib.rs): the grammar parser for the roll   *)
(* notation "<count>d<sides>[<sign><modifier>]" and the validator that     *)
(* follows it.  Strings are sequences of one-character strings.  Every     *)
(* parser is an operator computed the way the nom combinators compute it;  *)
(* every entry point is one action applied to the input held in the state. *)
(***************************************************************************)
EXTENDS Integers, Sequences, FiniteSets, TLC

VARIABLES input, roll, max_dice, op, result

vars == <<input, roll, max_dice, op, result>>

----------------------------------------------------------------------------
(* Bounds of the explored inputs. *)

\* Longest input made of arbitrary characters of Alphabet.
MaxLen == 4

----------------------------------------------------------------------------
(* Characters and numbers. *)

\* Largest value of a u16.
U16_MAX == 65535

DigitChars == <<"0", "1", "2", "3", "4", "5", "6", "7", "8", "9">>

\* char::is_ascii_digit, as used by nom's digit1.
IsDigit(c) == \E i \in 1..10 : DigitChars[i] = c

\* The value of an ASCII digit.
DigitVal(c) == (CHOOSE i \in 1..10 : DigitChars[i] = c) - 1

\* The rest of s after its first n characters (&s[n..]).
Drop(s, n) == SubSeq(s, n + 1, Len(s))

\* The first n characters of s (&s[..n]).
Take(s, n) == SubSeq(s, 1, n)

----------------------------------------------------------------------------
(* Values returned by the parsers. *)

\* nom's IResult: Ok((remainder, value)) or Err.
IOk(rem, val) == [ok |-> TRUE, rem |-> rem, val |-> val]
IErr == [ok |-> FALSE, rem |-> <<>>, val |-> 0]

\* struct Roll and Roll::new.
Roll(number_of_sides, number_of_dice, modifier) ==
    [number_of_sides |-> number_of_sides,
     number_of_dice |-> number_of_dice,
     modifier |-> modifier]

\* Result<Roll, RollError> and Result<(), RollError>; the payload of an Err
\* and of Ok(()) is the placeholder NoRoll.
NoRoll == Roll(0, 0, 0)
Ok(r) == [tag |-> "Ok", roll |-> r]
Err(e) == [tag |-> e, roll |-> NoRoll]
OkUnit == Ok(NoRoll)

RollErrors == {"DieTypeInvalid", "DiceExceedLimit", "NoDiceToRoll", "ParsingError"}

----------------------------------------------------------------------------
(* The parsers. *)

\* input.replace(" ", ""): every U+0020 is removed, nothing else.
RemoveSpaces(s) == SelectSeq(s, LAMBDA c : c # " ")

\* Length of the longest prefix of ASCII digits (nom's digit1 split point).
RECURSIVE DigitRunLen(_)
DigitRunLen(s) ==
    IF s = <<>> \/ ~IsDigit(Head(s)) THEN 0 ELSE 1 + DigitRunLen(Tail(s))

\* u16::from_str on a non-empty run of digits: accumulate base 10 with
\* checked arithmetic; -1 stands for Err (PosOverflow).
RECURSIVE FromStrAcc(_, _)
FromStrAcc(ds, acc) ==
    IF ds = <<>> THEN acc
    ELSE LET next == acc * 10 + DigitVal(Head(ds))
         IN  IF next > U16_MAX THEN -1 ELSE FromStrAcc(Tail(ds), next)

\* Variant of u16_from_str: the accumulation wraps at 16 bits instead of
\* failing.
RECURSIVE FromStrWrap(_, _)
FromStrWrap(ds, acc) ==
    IF ds = <<>> THEN acc
    ELSE FromStrWrap(Tail(ds), (acc * 10 + DigitVal(Head(ds))) % 65536)

u16_from_str_wrapping(ds) == FromStrWrap(ds, 0)

u16_from_str(ds) == FromStrAcc(ds, 0)

\* map_res(digit1, u16::from_str)
parse_numbers(s) ==
    LET n == DigitRunLen(s)
    IN  IF n = 0 THEN IErr
        ELSE LET v == u16_from_str(Take(s, n))
             IN  IF v < 0 THEN IErr ELSE IOk(Drop(s, n), v)

\* separated_pair(parse_numbers, char('d'), parse_numbers)
parse_simple_roll(s) ==
    LET first == parse_numbers(s)
    IN  IF ~first.ok THEN IErr
        ELSE IF first.rem = <<>> \/ Head(first.rem) # "d" THEN IErr
        ELSE LET second == parse_numbers(Tail(first.rem))
             IN  IF ~second.ok THEN IErr
                 ELSE IOk(second.rem, <<first.val, second.val>>)

\* branch::alt((tag("+"), tag("-"), tag(""))): never fails.
parse_operator(s) ==
    IF s # <<>> /\ Head(s) = "+" THEN IOk(Tail(s), "+")
    ELSE IF s # <<>> /\ Head(s) = "-" THEN IOk(Tail(s), "-")
    ELSE IOk(s, "")

\* Variant of parse_modifier: text that is not a modifier is an error
\* instead of being left unread.
parse_modifier_strict(s) ==
    LET o == parse_operator(s)
    IN  IF o.val = "+"
        THEN LET m == parse_numbers(o.rem)
             IN  IF m.ok THEN IOk(m.rem, m.val) ELSE IErr
        ELSE IF o.val = "-"
        THEN LET m == parse_numbers(o.rem)
             IN  IF m.ok THEN IOk(m.rem, m.val * (-1)) ELSE IErr
        ELSE IF o.rem # <<>> THEN IErr
        ELSE IOk(o.rem, 0)

\* Variant of parse_modifier: a sign without digits counts as no modifier.
parse_modifier_lenient(s) ==
    LET o == parse_operator(s)
    IN  IF o.val = "+"
        THEN LET m == parse_numbers(o.rem)
             IN  IF m.ok THEN IOk(m.rem, m.val) ELSE IOk(o.rem, 0)
        ELSE IF o.val = "-"
        THEN LET m == parse_numbers(o.rem)
             IN  IF m.ok THEN IOk(m.rem, m.val * (-1)) ELSE IOk(o.rem, 0)
        ELSE IOk(o.rem, 0)

parse_modifier(s) ==
    LET o == parse_operator(s)
    IN  IF o.val = "+"
        THEN LET m == parse_numbers(o.rem)
             IN  IF m.ok THEN IOk(m.rem, m.val) ELSE IErr
        ELSE IF o.val = "-"
        THEN LET m == parse_numbers(o.rem)
             IN  IF m.ok THEN IOk(m.rem, m.val * (-1)) ELSE IErr
        ELSE IOk(o.rem, 0)

parse_modified_roll(s) ==
    LET whitespaceless == RemoveSpaces(s)
        simple == parse_simple_roll(whitespaceless)
    IN  IF ~simple.ok THEN Err("ParsingError")
        ELSE LET modifier == parse_modifier(simple.rem)
             IN  IF ~modifier.ok THEN Err("ParsingError")
                 ELSE Ok(Roll(simple.val[2], simple.val[1], modifier.val))

----------------------------------------------------------------------------
(* The validator. *)

ValidSides == {2, 4, 6, 8, 10, 12, 20, 100}

\* `!x` on a u16: the bitwise complement.
Not16(x) == U16_MAX - x

\* Variant of check_roll_validity: the ceiling itself is rejected (>=).
check_roll_validity_off_by_one(self, limit) ==
    IF self.number_of_sides \notin ValidSides THEN Err("DieTypeInvalid")
    ELSE IF self.number_of_dice >= limit /\ Not16(limit) # 0
         THEN Err("DiceExceedLimit")
    ELSE IF self.number_of_dice <= 0 THEN Err("NoDiceToRoll")
    ELSE OkUnit

\* Variant of check_roll_validity: the lower bound is not checked.
check_roll_validity_no_lower_bound(self, limit) ==
    IF self.number_of_sides \notin ValidSides THEN Err("DieTypeInvalid")
    ELSE IF self.number_of_dice > limit /\ Not16(limit) # 0
         THEN Err("DiceExceedLimit")
    ELSE OkUnit

check_roll_validity(self, limit) ==
    IF self.number_of_sides \notin ValidSides THEN Err("DieTypeInvalid")
    ELSE IF self.number_of_dice > limit /\ Not16(limit) # 0
         THEN Err("DiceExceedLimit")
    ELSE IF self.number_of_dice <= 0 THEN Err("NoDiceToRoll")
    ELSE OkUnit

----------------------------------------------------------------------------
(* The public entry points. *)

\* Variant of parse_roll: the ceiling is 1000 instead of 100.
parse_roll_ceiling_1000(s) ==
    LET parsed == parse_modified_roll(s)
    IN  IF parsed.tag # "Ok" THEN parsed
        ELSE LET checked == check_roll_validity(parsed.roll, 1000)
             IN  IF checked.tag = "Ok" THEN Ok(parsed.roll) ELSE checked

parse_roll(s) ==
    LET parsed == parse_modified_roll(s)
    IN  IF parsed.tag # "Ok" THEN parsed
        ELSE LET checked == check_roll_validity(parsed.roll, 100)
             IN  IF checked.tag = "Ok" THEN Ok(parsed.roll) ELSE checked

parse_roll_with_limit(s, limit) ==
    LET parsed == parse_modified_roll(s)
    IN  IF parsed.tag # "Ok" THEN parsed
        ELSE LET checked == check_roll_validity(parsed.roll, limit)
             IN  IF checked.tag = "Ok" THEN Ok(parsed.roll) ELSE checked

----------------------------------------------------------------------------
(* The inputs explored.  Callers hand the entry points arbitrary text; the  *)
(* text is drawn from short strings over Alphabet, from the inputs of the  *)
(* crate's own tests and doc examples, and from rolls written out as       *)
(* "{n}d{s}{sign}{m}" with optional padding and trailing text.             *)

Alphabet == {"0", "1", "d", "+", " ", "x"}

\* All strings over S of length at most n.
StringsUpTo(S, n) == UNION {[1..k -> S] : k \in 0..n}

\* n.to_string(): the decimal digits of n, no leading zeros.
RECURSIVE ToDigits(_)
ToDigits(n) ==
    IF n < 10 THEN <<DigitChars[n + 1]>>
    ELSE Append(ToDigits(n \div 10), DigitChars[(n % 10) + 1])

DiceCounts == {0, 4, 100, 101, 65535, 70000}
SideCounts == {2, 5, 20, 100, 70000}
SignTexts == {<<>>, <<"+">>, <<"-">>}
ModValues == {0, 3, 65535, 65536}
ModTexts == {<<>>} \cup {ToDigits(m) : m \in ModValues}
Paddings == {<<" ">>, <<"\t">>}
Trails == {<<>>, <<"x">>, <<"+">>, <<"1">>, <<"x", "+", "5">>}

\* The five tokens of a roll, joined with the padding pad after token at.
Join(toks, at, pad) ==
    LET Tok(i) == IF i = at THEN toks[i] \o pad ELSE toks[i]
    IN  Tok(1) \o Tok(2) \o Tok(3) \o Tok(4) \o Tok(5)

FormattedInputs ==
    {Join(<<ToDigits(n), <<"d">>, ToDigits(s), sg, m>>, at, pad) \o trail :
        n \in DiceCounts, s \in SideCounts, sg \in SignTexts, m \in ModTexts,
        at \in 0..5, pad \in Paddings, trail \in Trails}

\* Inputs of the doc examples and unit tests of lib.rs.
DocInputs ==
    { <<"3", "d", "1", "0", " ", "-", " ", "5">>,
      <<"4", "d", "2", "i", "n", "v", "a", "l", "i", "d", "_", "c", "h", "a",
        "r", "a", "c", "t", "e", "r", "s", "+", "5">>,
      <<"4", " ", "d", " ", "1", "0", " ", " ", "+", " ", "3">>,
      <<"4", "d", "1", "0", "+", "3", " ", "r", "a", "n", "d", "o", "m">>,
      <<"4", "d", "1", "0", " ", " ", "-", " ", "u", "n", "p">>,
      <<"4", "d", "i", "n", "v">>,
      <<"i", "n", "v", "d", "2", "0">>,
      <<"9", "0", "0", "1", "d", "2", "0">>,
      <<"9", "0", "0", "1", "d", "5">>,
      <<"1", "d", "5", "0">> }

Inputs == StringsUpTo(Alphabet, MaxLen) \cup FormattedInputs \cup DocInputs

\* Rolls built by hand with Roll::new, and the ceilings callers pass.
Rolls ==
    {Roll(s, d, m) : s \in ValidSides \cup {0, 5, 65535},
                     d \in {0, 1, 4, 100, 101, 65535}, m \in {-3, 0, 5}}

Limits == {0, 4, 100, 65535}

---------------------------------------------------------------------------------------------------------------------------------------------------
(* The state machine of the parse pipeline: one call of one function on   *)
(* the state's input.  op names the call that produced result.            *)

NoResult == [tag |-> "none", roll |-> NoRoll]

Init ==
    /\ input \in Inputs
    /\ roll = NoRoll
    /\ max_dice = 0
    /\ op = "none"
    /\ result = NoResult

ParseModifier ==
    /\ op = "none"
    /\ op' = "parse_modifier"
    /\ result' = parse_modifier(input)
    /\ UNCHANGED <<input, roll, max_dice>>

ParseModifiedRoll ==
    /\ op = "none"
    /\ op' = "parse_modified_roll"
    /\ result' = parse_modified_roll(input)
    /\ UNCHANGED <<input, roll, max_dice>>

ParseRoll ==
    /\ op = "none"
    /\ op' = "parse_roll"
    /\ result' = parse_roll(input)
    /\ UNCHANGED <<input, roll, max_dice>>

ParseRollWithLimit ==
    /\ op = "none"
    /\ \E limit \in Limits :
        /\ op' = "parse_roll_with_limit"
        /\ max_dice' = limit
        /\ result' = parse_roll_with_limit(input, limit)
        /\ UNCHANGED <<input, roll>>

Next ==
    \/ ParseModifier
    \/ ParseModifiedRoll
    \/ ParseRoll
    \/ ParseRollWithLimit

Spec == Init /\ [][Next]_vars

----------------------------------------------------------------------------
(* The state machine of the validator alone: check_roll_validity called   *)
(* on a Roll built with Roll::new.                                        *)

InitValidator ==
    /\ input = <<>>
    /\ roll \in Rolls
    /\ max_dice = 0
    /\ op = "none"
    /\ result = NoResult

CheckRollValidity ==
    /\ op = "none"
    /\ \E limit \in Limits :
        /\ op' = "check_roll_validity"
        /\ max_dice' = limit
        /\ result' = check_roll_validity(roll, limit)
        /\ UNCHANGED <<input, roll>>

NextValidator == CheckRollValidity

SpecValidator == InitValidator /\ [][NextValidator]_vars

----------------------------------------------------------------------------
(* Vocabulary of the properties: the notation read directly off the text,  *)
(* without the parsers above.                                              *)

Signs == {"+", "-"}
Whitespace == {" ", "\t"}
EntryPoints == {"parse_roll", "parse_roll_with_limit"}

\* The ceiling in force for the call that produced result.
ActiveLimit == IF op = "parse_roll" THEN 100 ELSE max_dice

\* Length of the maximal run of digits at the start of s.
RunLen(s) ==
    CHOOSE k \in 0..Len(s) :
        /\ \A i \in 1..k : IsDigit(s[i])
        /\ k = Len(s) \/ ~IsDigit(s[k + 1])

\* The number a run of digits denotes (leading zeros allowed, no width).
RECURSIVE DecValue(_)
DecValue(ds) ==
    IF ds = <<>> THEN 0
    ELSE DecValue(Take(ds, Len(ds) - 1)) * 10 + DigitVal(ds[Len(ds)])

\* A run of digits without its leading zeros.
RECURSIVE Significant(_)
Significant(ds) ==
    IF ds # <<>> /\ ds[1] = "0" THEN Significant(Tail(ds)) ELSE ds

\* A run of digits denotes a value of at most 65535: at most five
\* significant digits, and those at most 65535.
FitsU16(ds) ==
    Len(Significant(ds)) <= 5 /\ DecValue(Significant(ds)) <= 65535

\* s begins with a run of digits denoting a value that fits a u16.
StartsWithU16(s) == RunLen(s) >= 1 /\ FitsU16(Take(s, RunLen(s)))

\* s begins with <digits>d<digits>, both runs fitting a u16.
StartsWithSimpleRoll(s) ==
    /\ StartsWithU16(s)
    /\ Len(s) > RunLen(s)
    /\ s[RunLen(s) + 1] = "d"
    /\ StartsWithU16(Drop(s, RunLen(s) + 1))

\* What follows the face count of a string that starts with a simple roll.
AfterSimpleRoll(s) ==
    LET t == Drop(s, RunLen(s) + 1) IN Drop(t, RunLen(t))

\* The dice count and face count a string that starts with a simple roll names.
DiceOf(s) == DecValue(Take(s, RunLen(s)))
SidesOf(s) == LET t == Drop(s, RunLen(s) + 1) IN DecValue(Take(t, RunLen(t)))

\* s begins with a sign.
StartsWithSign(s) == s # <<>> /\ s[1] \in Signs

\* The modifier text s is acceptable: no sign, or a sign and a u16.
ModifierTextOk(s) == StartsWithSign(s) => StartsWithU16(Tail(s))

\* The modifier that the text s denotes, when ModifierTextOk(s).
ModifierOf(s) ==
    IF ~StartsWithSign(s) THEN 0
    ELSE LET v == DecValue(Take(Tail(s), RunLen(Tail(s))))
         IN  IF s[1] = "-" THEN 0 - v ELSE v

\* The text the modifier leaves unread, when ModifierTextOk(s).
ModifierRest(s) ==
    IF ~StartsWithSign(s) THEN s ELSE Drop(Tail(s), RunLen(Tail(s)))

\* s with its i-th character removed.
RemoveAt(s, i) == Take(s, i - 1) \o Drop(s, i)

\* "{n}d{s}", "{n}d{s}+{m}" and "{n}d{s}-{m}" with the Roll each denotes.
WellFormedTable ==
    {<<ToDigits(n) \o <<"d">> \o ToDigits(s), Roll(s, n, 0)>> :
        n \in DiceCounts, s \in ValidSides}
    \cup {<<ToDigits(n) \o <<"d">> \o ToDigits(s) \o <<"+">> \o ToDigits(m),
            Roll(s, n, m)>> :
        n \in DiceCounts, s \in ValidSides, m \in {0, 3, 65535}}
    \cup {<<ToDigits(n) \o <<"d">> \o ToDigits(s) \o <<"-">> \o ToDigits(m),
            Roll(s, n, 0 - m)>> :
        n \in DiceCounts, s \in ValidSides, m \in {0, 3, 65535}}

----------------------------------------------------------------------------
(* Properties. *)

\* C1: a ceiling of 0 means "no limit": an input that parses structurally
\* with an allowed face count and at least one die is returned as Ok by
\* parse_roll_with_limit(input, 0), never DiceExceedLimit.
C1_ZeroCeilingIsNoLimit ==
    (op = "parse_roll_with_limit" /\ max_dice = 0) =>
        LET s == RemoveSpaces(input)
        IN  (/\ StartsWithSimpleRoll(s)
             /\ ModifierTextOk(AfterSimpleRoll(s))
             /\ SidesOf(s) \in ValidSides
             /\ DiceOf(s) >= 1)
            => result = Ok(Roll(SidesOf(s), DiceOf(s),
                                ModifierOf(AfterSimpleRoll(s))))

\* C2: an input that is <count>d<sides>, then a run of characters that are
\* neither digits nor signs, then a sign and digits, is rejected with
\* ParsingError (the doc example "4d2invalid_characters+5").
GarbageThenModifier(t) ==
    \E k \in 1..(Len(t) - 2) :
        /\ \A i \in 1..k : ~IsDigit(t[i]) /\ t[i] \notin Signs
        /\ t[k + 1] \in Signs
        /\ IsDigit(t[k + 2])

C2_GarbageBeforeModifierRejected ==
    (op \in EntryPoints) =>
        LET s == RemoveSpaces(input)
        IN  (StartsWithSimpleRoll(s) /\ GarbageThenModifier(AfterSimpleRoll(s)))
            => result = Err("ParsingError")

\* The first character of x that is not a space, or "" when x has none.
FirstNonSpace(x) ==
    LET y == RemoveSpaces(x) IN IF y = <<>> THEN "" ELSE y[1]

WellFormed(s) ==
    /\ StartsWithSimpleRoll(s)
    /\ ModifierTextOk(AfterSimpleRoll(s))
    /\ ModifierRest(AfterSimpleRoll(s)) = <<>>

BetweenTokens(s, i) ==
    /\ 1 < i
    /\ i <= Len(s)
    /\ ~(IsDigit(s[i - 1]) /\ IsDigit(s[i]))

C4_AllWhitespaceIgnored ==
    (op \in EntryPoints) =>
        \A i \in 1..Len(input) :
            (/\ input[i] \in Whitespace
             /\ WellFormed(RemoveAt(input, i))
             /\ BetweenTokens(RemoveAt(input, i), i))
            => result = IF op = "parse_roll"
                        THEN parse_roll(RemoveAt(input, i))
                        ELSE parse_roll_with_limit(RemoveAt(input, i), max_dice)

\* C5: the validator reports the first failing check in the order die type,
\* ceiling (skipped when max_dice = 0), lower bound, and accepts otherwise.
ValidatorVerdict(r, limit) ==
    IF r.number_of_sides \notin {2, 4, 6, 8, 10, 12, 20, 100} THEN "DieTypeInvalid"
    ELSE IF limit # 0 /\ r.number_of_dice > limit THEN "DiceExceedLimit"
    ELSE IF r.number_of_dice = 0 THEN "NoDiceToRoll"
    ELSE "Ok"

C5_ValidatorOrder ==
    (op = "check_roll_validity") => result.tag = ValidatorVerdict(roll, max_dice)

\* C6: every Roll returned as Ok by parse_roll or parse_roll_with_limit has
\* an allowed face count, at least one die, and no more dice than the
\* ceiling unless the ceiling is 0 (the ceiling of parse_roll is 100).
C6_OkRollIsValid ==
    (op \in EntryPoints /\ result.tag = "Ok") =>
        /\ result.roll.number_of_sides \in {2, 4, 6, 8, 10, 12, 20, 100}
        /\ result.roll.number_of_dice >= 1
        /\ ActiveLimit = 0 \/ result.roll.number_of_dice <= ActiveLimit

C6_Witness ==
    /\ op = "parse_roll_with_limit"
    /\ result.tag = "Ok"
    /\ max_dice = 4
    /\ result.roll.number_of_dice = 4

\* C7: under a ceiling c # 0, "{n}d{s}", "{n}d{s}+{m}" and "{n}d{s}-{m}"
\* with 1 <= n <= c (n = c included) and s an allowed face count parse to
\* Roll{s, n, 0}, Roll{s, n, m} and Roll{s, n, -m}.
C7_WellFormedParses ==
    (op = "parse_roll_with_limit" /\ max_dice # 0) =>
        \A e \in WellFormedTable :
            (/\ input = e[1]
             /\ 1 <= e[2].number_of_dice
             /\ e[2].number_of_dice <= max_dice)
            => result = Ok(e[2])

C7_Witness ==
    /\ op = "parse_roll_with_limit"
    /\ max_dice = 65535
    /\ input = ToDigits(65535) \o <<"d", "2", "0", "-">> \o ToDigits(65535)
    /\ result = Ok(Roll(20, 65535, 0 - 65535))

\* C8: parse_roll(input) is parse_roll_with_limit(input, 100); 100 dice of
\* an allowed type are accepted and 101 are rejected with DiceExceedLimit.
C8_ParseRollCeilingIs100 ==
    (op = "parse_roll") =>
        /\ result = parse_roll_with_limit(input, 100)
        /\ input = <<"1", "0", "0", "d", "2", "0">> => result = Ok(Roll(20, 100, 0))
        /\ input = <<"1", "0", "1", "d", "2", "0">> => result = Err("DiceExceedLimit")

C8_Witness ==
    /\ op = "parse_roll"
    /\ input = <<"1", "0", "1", "d", "2", "0">>
    /\ result.tag = "DiceExceedLimit"

====
